---------------------------- MODULE Spec2Model ----------------------------
(***************************************************************************)
(* A model of pycaret/internal/utils.py: the scoped estimator attachment   *)
(* of the internal pipeline, the metric evaluation loop, the normalisation *)
(* of custom transformers, the selection of a cross-validation splitter    *)
(* and the get/set/save/load of the global configuration.                  *)
(*                                                                         *)
(* Each group of functions has a specification of its own (SpecPipeline,   *)
(* SpecMetrics, SpecNormalize, SpecCV, SpecConfig); the variables of the   *)
(* other groups stay at their idle values.                                 *)
(***************************************************************************)
EXTENDS Integers, Sequences, FiniteSets, TLC

VARIABLES
    steps,      \* pipeline.steps: a sequence of <<name, object>> pairs
    scopes,     \* the open estimator_pipeline contexts, innermost last
    plast,      \* the last pipeline operation and what it saw
    metrics,    \* the metric catalog given to calculate_metrics, row by row
    mrow,       \* the number of catalog rows calculate_metrics has gone through
    score_dict, \* calculate_metrics' list of per-row results, then its mapping
    mcalls,     \* the calls of scoring functions made so far
    mstate,     \* "loop", "returned" or "raised"
    transformers, \* the argument of normalize_custom_transformers
    nresult,    \* what normalize_custom_transformers gave, or Pending
    cvargs,     \* the arguments of get_cv_splitter
    cvresult,   \* what get_cv_splitter gave, or Pending
    globals_d,  \* the dict of global variables, name -> value
    file,       \* the content of the file of save_config, or NoFile
    saved,      \* globals_d as it was at the last save_config, or NoFile
    clast       \* the last configuration call and how it ended

pipeVars == <<steps, scopes, plast>>

metricVars == <<metrics, mrow, score_dict, mcalls, mstate>>

normVars == <<transformers, nresult>>

cvVars == <<cvargs, cvresult>>

configVars == <<globals_d, file, saved, clast>>

vars == <<steps, scopes, plast, metrics, mrow, score_dict, mcalls, mstate,
          transformers, nresult, cvargs, cvresult, globals_d, file, saved, clast>>

(***************************************************************************)
(* Bounds.                                                                 *)
(***************************************************************************)
MaxInitSteps == 1     \* length of the step list given to make_internal_pipeline
MaxSteps == 3         \* cap on len(pipeline.steps)
MaxDepth == 2         \* cap on nested estimator_pipeline contexts
MaxRows == 2          \* rows of the metric catalog
MaxList == 2          \* items of a list or mapping of custom transformers
MaxFold == 3          \* largest integer fold

(***************************************************************************)
(* Helpers on sequences.                                                   *)
(***************************************************************************)
Last(s) == s[Len(s)]

Front(s) == SubSeq(s, 1, Len(s) - 1)

SeqsUpTo(S, n) == UNION {[1..k -> S] : k \in 0..n}

(***************************************************************************)
(* Pipeline composition (utils.py 244-261, 440-454).                       *)
(***************************************************************************)
ActualEstimator == "actual_estimator"

TransformerNames == {"imputer", "scaler"}

Estimators == {"E1", "E2"}

\* a step whose object is the transformer of that name
StepOf(n) == <<n, n>>

EmptyStep == <<"passthrough", "EmptyStep">>

\* make_internal_pipeline: an empty list becomes one pass-through step
make_internal_pipeline(internal_pipeline_steps) ==
    IF Len(internal_pipeline_steps) = 0
    THEN <<EmptyStep>>
    ELSE internal_pipeline_steps

\* a faulty variant: the estimator step is inserted before the last step
AddBeforeLast(s, estimator) ==
    IF Len(s) = 0
    THEN <<<<ActualEstimator, estimator>>>>
    ELSE Append(Append(Front(s), <<ActualEstimator, estimator>>), Last(s))

\* add_estimator_to_pipeline: pipeline.steps.append(("actual_estimator", estimator))
add_estimator_to_pipeline(s, estimator) ==
    Append(s, <<ActualEstimator, estimator>>)

\* a faulty variant: the last step is popped whatever its name
RemoveAlwaysPop(s) == Front(s)

\* remove_estimator_from_pipeline, on a non-empty step list
remove_estimator_from_pipeline(s) ==
    IF Last(s)[1] = ActualEstimator THEN Front(s) ELSE s

NoOp == [op |-> "none", before |-> <<>>, pre |-> <<>>, est |-> "none",
         clean |-> TRUE, failed |-> FALSE, depth |-> 0, error |-> "none"]

InitPipeline ==
    /\ \E s \in SeqsUpTo(TransformerNames, MaxInitSteps) :
          steps = make_internal_pipeline([i \in 1..Len(s) |-> StepOf(s[i])])
    /\ scopes = <<>>
    /\ plast = NoOp

IdlePipeline == steps = <<EmptyStep>> /\ scopes = <<>> /\ plast = NoOp

\* with estimator_pipeline(pipeline, estimator): __init__ and __enter__
EnterScope(estimator) ==
    /\ Len(scopes) < MaxDepth
    /\ Len(steps) < MaxSteps
    /\ steps' = add_estimator_to_pipeline(steps, estimator)
    /\ scopes' = Append(scopes, [pre |-> steps, est |-> estimator, clean |-> TRUE])
    /\ plast' = [NoOp EXCEPT !.op = "enter", !.before = steps, !.est = estimator,
                             !.depth = Len(scopes) + 1]

\* the end of the with block, normal (failed = FALSE) or by an exception of
\* the body (failed = TRUE): __exit__ runs on both paths
ExitScope(failed) ==
    /\ Len(scopes) > 0
    /\ IF Len(steps) = 0
       THEN /\ steps' = steps
            /\ plast' = [NoOp EXCEPT !.op = "exit", !.error = "IndexError"]
       ELSE /\ steps' = remove_estimator_from_pipeline(steps)
            /\ plast' = [NoOp EXCEPT !.op = "exit", !.before = steps,
                                     !.pre = Last(scopes).pre,
                                     !.est = Last(scopes).est,
                                     !.clean = Last(scopes).clean,
                                     !.failed = failed,
                                     !.depth = Len(scopes)]
    /\ scopes' = Front(scopes)

\* a change of the step list by the body marks every open scope
Touched(new) == [i \in 1..Len(scopes) |->
                    [scopes[i] EXCEPT !.clean = scopes[i].clean /\ new = steps]]

\* the free operation add_estimator_to_pipeline, called by hand
AddEstimator(estimator) ==
    /\ Len(steps) < MaxSteps
    /\ steps' = add_estimator_to_pipeline(steps, estimator)
    /\ scopes' = Touched(steps')
    /\ plast' = [NoOp EXCEPT !.op = "add", !.before = steps, !.est = estimator]

\* the free operation remove_estimator_from_pipeline, called by hand
RemoveEstimator ==
    /\ IF Len(steps) = 0
       THEN /\ steps' = steps
            /\ plast' = [NoOp EXCEPT !.op = "remove", !.error = "IndexError"]
       ELSE /\ steps' = remove_estimator_from_pipeline(steps)
            /\ plast' = [NoOp EXCEPT !.op = "remove", !.before = steps]
    /\ scopes' = Touched(steps')

NextPipeline ==
    \/ \E e \in Estimators : EnterScope(e) /\ UNCHANGED <<metricVars, normVars, cvVars, configVars>>
    \/ \E f \in BOOLEAN : ExitScope(f) /\ UNCHANGED <<metricVars, normVars, cvVars, configVars>>
    \/ \E e \in Estimators : AddEstimator(e) /\ UNCHANGED <<metricVars, normVars, cvVars, configVars>>
    \/ RemoveEstimator /\ UNCHANGED <<metricVars, normVars, cvVars, configVars>>


(***************************************************************************)
(* Metric evaluation (utils.py 264-311).                                   *)
(***************************************************************************)
\* a falsy "Score Function" cell: the metric is disabled
NoFunction == [withWeight |-> "none", noWeight |-> "none"]

DisplayNames == {"Accuracy", "AUC", "F1"}

\* A scoring function is given by what a call of it does with and without
\* the sample_weight keyword: it raises, or it returns a score.
ScoreFunctions == [withWeight : {"raise", "score"}, noWeight : {"raise", "score"}]

\* The catalog rows: the "Score Function" column, the "Display Name" column
\* and the Target column.
MetricRows == [fn : ScoreFunctions \cup {NoFunction}, name : DisplayNames,
               target : {"pred", "pred_proba"}]

\* The predictions handed to calculate_metrics, as the scores they lead to.
PredOf(target) == IF target = "pred_proba" THEN 2 ELSE 1

\* row[score_function_idx](ytest, target, [sample_weight=weights,] **row.Args):
\* the call raises, or returns a score that depends on the target and on
\* the weights
Invoke(fn, target, weighted) ==
    IF (IF weighted THEN fn.withWeight ELSE fn.noWeight) = "raise"
    THEN [raised |-> TRUE, value |-> 0]
    ELSE [raised |-> FALSE, value |-> PredOf(target) + (IF weighted THEN 2 ELSE 0)]

\* What _calculate_metric gives: None, a pair (display name, score), or an
\* exception that leaves it.
None == <<>>

Raised == <<"raised">>

\* a faulty variant: the retry without sample_weight is not guarded
CalculateMetricNoInnerTry(row) ==
    IF row.fn = NoFunction
    THEN None
    ELSE IF ~Invoke(row.fn, row.target, TRUE).raised
         THEN <<row.name, Invoke(row.fn, row.target, TRUE).value>>
         ELSE IF ~Invoke(row.fn, row.target, FALSE).raised
              THEN <<row.name, Invoke(row.fn, row.target, FALSE).value>>
              ELSE Raised

\* a faulty variant: a disabled row yields a zero entry
CalculateMetricDisabledAsZero(row) ==
    IF row.fn = NoFunction
    THEN <<row.name, 0>>
    ELSE IF ~Invoke(row.fn, row.target, TRUE).raised
         THEN <<row.name, Invoke(row.fn, row.target, TRUE).value>>
         ELSE IF ~Invoke(row.fn, row.target, FALSE).raised
              THEN <<row.name, Invoke(row.fn, row.target, FALSE).value>>
              ELSE <<row.name, 0>>

\* _calculate_metric: None for a disabled row, else (display name, score)
_calculate_metric(row) ==
    IF row.fn = NoFunction
    THEN None
    ELSE IF ~Invoke(row.fn, row.target, TRUE).raised
         THEN <<row.name, Invoke(row.fn, row.target, TRUE).value>>
         ELSE IF ~Invoke(row.fn, row.target, FALSE).raised
              THEN <<row.name, Invoke(row.fn, row.target, FALSE).value>>
              ELSE <<row.name, 0>>

\* the calls _calculate_metric makes for row number i: <<i, weighted>>
CallsOf(i, row) ==
    IF row.fn = NoFunction
    THEN <<>>
    ELSE IF ~Invoke(row.fn, row.target, TRUE).raised
         THEN << <<i, TRUE>> >>
         ELSE << <<i, TRUE>>, <<i, FALSE>> >>

\* dict(pairs): a later pair of the same key replaces the value of the
\* earlier one and keeps its place
RECURSIVE DictOf(_)
DictOf(pairs) ==
    IF Len(pairs) = 0
    THEN <<>>
    ELSE LET d == DictOf(Front(pairs))
             kv == Last(pairs)
         IN  IF \E j \in 1..Len(d) : d[j][1] = kv[1]
             THEN [j \in 1..Len(d) |-> IF d[j][1] = kv[1] THEN kv ELSE d[j]]
             ELSE Append(d, kv)

\* [x for x in score_dict if x is not None]
NotNone(list) == SelectSeq(list, LAMBDA x : x # None)

InitMetrics ==
    /\ metrics \in SeqsUpTo(MetricRows, MaxRows)
    /\ mrow = 0
    /\ score_dict = <<>>
    /\ mcalls = <<>>
    /\ mstate = "loop"

IdleMetrics ==
    /\ metrics = <<>>
    /\ mrow = 0
    /\ score_dict = <<>>
    /\ mcalls = <<>>
    /\ mstate = "loop"

\* one turn of the loop over metrics.itertuples()
CalculateRow ==
    /\ mstate = "loop"
    /\ mrow < Len(metrics)
    /\ mcalls' = mcalls \o CallsOf(mrow + 1, metrics[mrow + 1])
    /\ IF _calculate_metric(metrics[mrow + 1]) = Raised
       THEN \* an exception leaves _calculate_metric and calculate_metrics
            /\ mstate' = "raised"
            /\ UNCHANGED <<metrics, mrow, score_dict>>
       ELSE /\ mrow' = mrow + 1
            /\ score_dict' = Append(score_dict, _calculate_metric(metrics[mrow + 1]))
            /\ UNCHANGED <<metrics, mstate>>

\* the end of the loop: the mapping is built and returned
ReturnScores ==
    /\ mstate = "loop"
    /\ mrow = Len(metrics)
    /\ score_dict' = DictOf(NotNone(score_dict))
    /\ mstate' = "returned"
    /\ UNCHANGED <<metrics, mrow, mcalls>>

NextMetrics ==
    \/ CalculateRow /\ UNCHANGED <<pipeVars, normVars, cvVars, configVars>>
    \/ ReturnScores /\ UNCHANGED <<pipeVars, normVars, cvVars, configVars>>

(***************************************************************************)
(* Python values, as tagged tuples: <<"str", s>>, <<"obj", id>>,           *)
(* <<"tuple", items>>, <<"list", items>>, <<"dict", pairs>>, <<"int", n>>, *)
(* <<"bool", b>>, <<"float", s>>, <<"none">>; an exception that leaves a   *)
(* function is <<"raise", type>>.                                          *)
(***************************************************************************)
Pending == <<"pending">>

Str(x) == <<"str", x>>

Obj(x) == <<"obj", x>>

Tuple(items) == <<"tuple", items>>

List(items) == <<"list", items>>

Dict(pairs) == <<"dict", pairs>>

RaiseOf(type) == <<"raise", type>>

IsRaise(v) == v[1] = "raise"

\* isinstance(x, tuple), isinstance(x, list), isinstance(x, dict), isinstance(x, str)
IsInstance(x, type) == x[1] = type

(***************************************************************************)
(* Custom transformers (utils.py 314-349).                                 *)
(*   T1, T2   transformers with fit, transform and fit_transform           *)
(*   E        an estimator: fit only                                       *)
(*   P        a sklearn Pipeline of the steps ("a", T1), ("b", T2)         *)
(***************************************************************************)
PipelineSteps == List(<< Tuple(<<Str("a"), Obj("T1")>>), Tuple(<<Str("b"), Obj("T2")>>) >>)

\* hasattr(x, attr)
HasAttr(x, attr) ==
    /\ IsInstance(x, "obj")
    /\ \/ x[2] \in {"T1", "T2", "P"} /\ attr \in {"fit", "transform", "fit_transform"}
       \/ x[2] = "E" /\ attr = "fit"
       \/ x[2] = "P" /\ attr = "steps"

\* pycaret.internal.validation.is_sklearn_pipeline: isinstance(object, Pipeline)
is_sklearn_pipeline(x) == x = Obj("P")

\* _check_custom_transformer: "ok", or the exception it raises
_check_custom_transformer(transformer) ==
    IF IsInstance(transformer, "tuple") /\ Len(transformer[2]) # 2
    THEN RaiseOf("ValueError")
    ELSE IF IsInstance(transformer, "tuple") /\ ~IsInstance(transformer[2][1], "str")
    THEN RaiseOf("TypeError")
    ELSE LET actual_transformer == IF IsInstance(transformer, "tuple")
                                   THEN transformer[2][2]
                                   ELSE transformer
         IN  IF ~ (/\ HasAttr(actual_transformer, "fit")
                   /\ HasAttr(actual_transformer, "transform")
                   /\ HasAttr(actual_transformer, "fit_transform"))
             THEN RaiseOf("TypeError")
             ELSE <<"ok">>

\* a faulty variant: the steps of a list are numbered from one
CustomStepNameFromOne(i) == "custom_step_" \o ToString(i + 1)

\* f"custom_step_{i}"
custom_step_name(i) == "custom_step_" \o ToString(i)

\* the loop over enumerate(transformers) from position k on (k counts from
\* 1 here, the name from 0): the list when the loop is over, or the
\* exception of the first item that fails the check
RECURSIVE NormalizeList(_, _)
NormalizeList(items, k) ==
    IF k > Len(items)
    THEN List(items)
    ELSE IF IsRaise(_check_custom_transformer(items[k]))
    THEN _check_custom_transformer(items[k])
    ELSE IF ~IsInstance(items[k], "tuple")
    THEN NormalizeList([items EXCEPT ![k] =
                           Tuple(<<Str(custom_step_name(k - 1)), items[k]>>)], k + 1)
    ELSE NormalizeList(items, k + 1)

\* list(transformers.items())
DictItems(d) == List([i \in 1..Len(d[2]) |-> Tuple(d[2][i])])

\* the else branch of normalize_custom_transformers: a single input
NormalizeSingle(t) ==
    IF IsRaise(_check_custom_transformer(t))
    THEN _check_custom_transformer(t)
    ELSE LET wrapped == IF ~IsInstance(t, "tuple")
                        THEN Tuple(<<Str("custom_step"), t>>)
                        ELSE t
         IN  IF is_sklearn_pipeline(wrapped[2][1])
             THEN \* transformers.steps, of a tuple
                  RaiseOf("AttributeError")
             ELSE List(<<wrapped>>)

normalize_custom_transformers(t) ==
    LET asList == IF IsInstance(t, "dict") THEN DictItems(t) ELSE t
    IN  IF IsInstance(asList, "list")
        THEN NormalizeList(asList[2], 1)
        ELSE NormalizeSingle(asList)

\* The inputs: bare objects and tuples, well formed or not.
NormElements ==
    {Obj("T1"), Obj("T2"), Obj("E"), Obj("P"),
     Tuple(<<Str("A"), Obj("T1")>>), Tuple(<<Str("B"), Obj("T2")>>),
     Tuple(<<Str("A"), Obj("E")>>), Tuple(<<Obj("T1"), Obj("T2")>>),
     Tuple(<<Str("A"), Obj("T1"), Obj("T2")>>), Tuple(<<Str("A")>>)}

DictKeys == {Str("A"), Str("B"), <<"int", 1>>}

DictValues == {Obj("T1"), Obj("T2"), Obj("E")}

NormDicts ==
    {d \in SeqsUpTo(DictKeys \X DictValues, MaxList) :
        \A i, j \in 1..Len(d) : d[i][1] = d[j][1] => i = j}

NormInputs ==
    NormElements
    \cup {List(l) : l \in SeqsUpTo(NormElements, MaxList)}
    \cup {Dict(d) : d \in NormDicts}

InitNormalize ==
    /\ transformers \in NormInputs
    /\ nresult = Pending

IdleNormalize ==
    /\ transformers = List(<<>>)
    /\ nresult = Pending

Normalize ==
    /\ nresult = Pending
    /\ nresult' = normalize_custom_transformers(transformers)
    /\ UNCHANGED transformers

NextNormalize == Normalize /\ UNCHANGED <<pipeVars, metricVars, cvVars, configVars>>

(***************************************************************************)
(* The cross-validation splitter (utils.py 352-374).                       *)
(***************************************************************************)
\* not fold
Falsy(v) ==
    \/ v = <<"none">>
    \/ v = <<"int", 0>>
    \/ v = <<"bool", FALSE>>
    \/ v = Str("")
    \/ v = List(<<>>)

\* pycaret.internal.validation.is_sklearn_cv_generator: an object, not a
\* str, that has a split method
is_sklearn_cv_generator(v) == IsInstance(v, "cv")

\* KFold(fold, random_state=seed, shuffle=shuffle)
KFold(n, seed, shuffle) == <<"KFold", n, seed, shuffle>>

\* StratifiedKFold(fold, random_state=seed, shuffle=shuffle)
StratifiedKFold(n, seed, shuffle) == <<"StratifiedKFold", n, seed, shuffle>>

\* a faulty variant: an unknown int_default falls back to KFold
GetCvSplitterDefaultsToKFold(fold, default, seed, shuffle, int_default) ==
    IF Falsy(fold) THEN default
    ELSE IF is_sklearn_cv_generator(fold) THEN fold
    ELSE IF IsInstance(fold, "int")
    THEN IF int_default = "stratifiedkfold"
         THEN StratifiedKFold(fold[2], seed, shuffle)
         ELSE KFold(fold[2], seed, shuffle)
    ELSE RaiseOf("TypeError")

get_cv_splitter(fold, default, seed, shuffle, int_default) ==
    IF Falsy(fold) THEN default
    ELSE IF is_sklearn_cv_generator(fold) THEN fold
    ELSE IF IsInstance(fold, "int")
    THEN IF int_default = "kfold"
         THEN KFold(fold[2], seed, shuffle)
         ELSE IF int_default = "stratifiedkfold"
         THEN StratifiedKFold(fold[2], seed, shuffle)
         ELSE RaiseOf("ValueError")
    ELSE RaiseOf("TypeError")

Folds ==
    {<<"none">>, <<"bool", FALSE>>, <<"bool", TRUE>>, Str(""), Str("5"),
     <<"float", "2.5">>, List(<<>>), <<"cv", "S1">>, <<"cv", "S2">>, Obj("T1")}
    \cup {<<"int", n>> : n \in 0..MaxFold}

CvArgs ==
    [fold : Folds, default : {<<"cv", "D1">>, <<"cv", "D2">>}, seed : {0, 42},
     shuffle : BOOLEAN, int_default : {"kfold", "stratifiedkfold", "bogus"}]

InitCV ==
    /\ cvargs \in CvArgs
    /\ cvresult = Pending

IdleCV ==
    /\ cvargs = [fold |-> <<"none">>, default |-> <<"cv", "D1">>, seed |-> 0,
                 shuffle |-> FALSE, int_default |-> "kfold"]
    /\ cvresult = Pending

GetCvSplitter ==
    /\ cvresult = Pending
    /\ cvresult' = get_cv_splitter(cvargs.fold, cvargs.default, cvargs.seed,
                                   cvargs.shuffle, cvargs.int_default)
    /\ UNCHANGED cvargs

NextCV == GetCvSplitter /\ UNCHANGED <<pipeVars, metricVars, normVars, configVars>>

(***************************************************************************)
(* The global configuration (utils.py 20-174).                             *)
(***************************************************************************)
IntV(n) == <<"int", n>>

SetOf(S) == <<"set", S>>

\* what get_logger() gives
TheLogger == <<"logger">>

NoFile == <<"nofile">>

\* the names of a session that has all the variables, and of one that has
\* no seed among its known variables
KnownFull == {"pycaret_globals", "seed", "n_jobs_param", "gpu_param",
              "gpu_n_jobs_param", "logger"}

KnownSmall == KnownFull \ {"seed"}

\* the names get_config and set_config are called with
ConfigNames == KnownFull \cup {"bogus"}

\* the values set_config is called with: a falsy and a truthy one
ConfigValues == {IntV(0), IntV(1)}

\* globals_d["pycaret_globals"]
Known(g) == g["pycaret_globals"][2]

\* get_config: the value, or the exception
get_config(variable, g) ==
    IF variable \notin Known(g)
    THEN RaiseOf("ValueError")
    ELSE IF variable \notin DOMAIN g
    THEN RaiseOf("KeyError")
    ELSE g[variable]

\* set_config: the dict after the call, and how the call ended
set_config(variable, value, g) ==
    IF variable \notin Known(g) \/ variable = "pycaret_globals"
    THEN [g |-> g, error |-> "ValueError"]
    ELSE LET g1 == [k \in DOMAIN g \cup {variable} |->
                       IF k = variable THEN value ELSE g[k]]
         IN  IF "gpu_param" \notin DOMAIN g1
             THEN [g |-> g1, error |-> "KeyError"]
             ELSE IF Falsy(g1["gpu_param"]) /\ variable = "n_jobs_param"
             THEN [g |-> [k \in DOMAIN g1 \cup {"gpu_n_jobs_param"} |->
                             IF k = "gpu_n_jobs_param" THEN value ELSE g1[k]],
                   error |-> "none"]
             ELSE [g |-> g1, error |-> "none"]

\* save_config: {k: v for k, v in globals_d.items() if k in pycaret_globals}
globals_to_dump(g) ==
    [k \in {n \in DOMAIN g : n \in Known(g)} |-> g[k]]

\* a faulty variant: the loaded variables are set, the logger is left as loaded
LoadKeepsLogger(loaded_globals, g) ==
    [k \in DOMAIN g \cup DOMAIN loaded_globals |->
        IF k \in DOMAIN loaded_globals THEN loaded_globals[k] ELSE g[k]]

\* load_config: every loaded variable is set, then the logger
load_config(loaded_globals, g) ==
    [k \in DOMAIN g \cup DOMAIN loaded_globals \cup {"logger"} |->
        IF k = "logger" THEN TheLogger
        ELSE IF k \in DOMAIN loaded_globals THEN loaded_globals[k]
        ELSE g[k]]

NoCall == [op |-> "none", variable |-> "none", error |-> "none", result |-> <<"none">>]

\* the dict after setup(): a session with or without a known seed, on or
\* off the GPU
InitGlobals ==
    {[k \in KnownFull |->
         CASE k = "pycaret_globals" -> SetOf(K)
           [] k = "seed" -> IntV(0)
           [] k = "n_jobs_param" -> IntV(1)
           [] k = "gpu_param" -> gpu
           [] k = "gpu_n_jobs_param" -> IntV(1)
           [] OTHER -> TheLogger] :
        K \in {KnownFull, KnownSmall}, gpu \in ConfigValues}

\* the file is missing, or was left by save_config in an earlier session
InitConfig ==
    /\ globals_d \in InitGlobals
    /\ file \in {NoFile} \cup {globals_to_dump(g) : g \in InitGlobals}
    /\ saved = NoFile
    /\ clast = NoCall

IdleConfig ==
    /\ globals_d = [k \in {"pycaret_globals"} |-> SetOf({"pycaret_globals"})]
    /\ file = NoFile
    /\ saved = NoFile
    /\ clast = NoCall

GetConfig(variable) ==
    /\ clast' = [op |-> "get", variable |-> variable,
                 error |-> IF IsRaise(get_config(variable, globals_d))
                           THEN get_config(variable, globals_d)[2] ELSE "none",
                 result |-> get_config(variable, globals_d)]
    /\ UNCHANGED <<globals_d, file, saved>>

SetConfig(variable, value) ==
    /\ globals_d' = set_config(variable, value, globals_d).g
    /\ clast' = [op |-> "set", variable |-> variable,
                 error |-> set_config(variable, value, globals_d).error,
                 result |-> <<"none">>]
    /\ UNCHANGED <<file, saved>>

SaveConfig ==
    /\ file' = globals_to_dump(globals_d)
    /\ saved' = globals_d
    /\ clast' = [NoCall EXCEPT !.op = "save"]
    /\ UNCHANGED globals_d

LoadConfig ==
    /\ IF file = NoFile
       THEN \* joblib.load raises
            /\ clast' = [NoCall EXCEPT !.op = "load", !.error = "FileNotFoundError"]
            /\ UNCHANGED globals_d
       ELSE /\ globals_d' = load_config(file, globals_d)
            /\ clast' = [NoCall EXCEPT !.op = "load"]
    /\ UNCHANGED <<file, saved>>

NextConfig ==
    \/ \E v \in ConfigNames : GetConfig(v) /\ UNCHANGED <<pipeVars, metricVars, normVars, cvVars>>
    \/ \E v \in ConfigNames, x \in ConfigValues :
          SetConfig(v, x) /\ UNCHANGED <<pipeVars, metricVars, normVars, cvVars>>
    \/ SaveConfig /\ UNCHANGED <<pipeVars, metricVars, normVars, cvVars>>
    \/ LoadConfig /\ UNCHANGED <<pipeVars, metricVars, normVars, cvVars>>

(***************************************************************************)
(* The specifications.                                                     *)
(***************************************************************************)
PipelineInit == InitPipeline /\ IdleMetrics /\ IdleNormalize /\ IdleCV /\ IdleConfig

SpecPipeline == PipelineInit /\ [][NextPipeline]_vars

MetricsInit == InitMetrics /\ IdlePipeline /\ IdleNormalize /\ IdleCV /\ IdleConfig

SpecMetrics == MetricsInit /\ [][NextMetrics]_vars

NormalizeInit == InitNormalize /\ IdlePipeline /\ IdleMetrics /\ IdleCV /\ IdleConfig

SpecNormalize == NormalizeInit /\ [][NextNormalize]_vars

CVInit == InitCV /\ IdlePipeline /\ IdleMetrics /\ IdleNormalize /\ IdleConfig

SpecCV == CVInit /\ [][NextCV]_vars

ConfigInit == InitConfig /\ IdlePipeline /\ IdleMetrics /\ IdleNormalize /\ IdleCV

SpecConfig == ConfigInit /\ [][NextConfig]_vars

(***************************************************************************)
(* Claims about the pipeline.                                              *)
(***************************************************************************)
NamedActual(s) == {i \in 1..Len(s) : s[i][1] = ActualEstimator}

\* C1: after entering the estimator_pipeline scope the last step of the
\* pipeline is ("actual_estimator", E); after the matching exit, on the normal
\* and on the failing path and at any nesting depth, the step list is the one
\* the scope was entered with, provided the body did not change the list.
C1_ScopeRestoresPipeline ==
    /\ plast.op = "enter" =>
          /\ Len(steps) = Len(plast.before) + 1
          /\ Last(steps) = <<ActualEstimator, plast.est>>
          /\ Front(steps) = plast.before
    /\ (plast.op = "exit" /\ plast.clean) =>
          /\ plast.error = "none"
          /\ steps = plast.pre

\* a nested scope whose body failed has been left and the list is restored
C1_Witness ==
    /\ plast.op = "exit"
    /\ plast.clean
    /\ plast.failed
    /\ plast.depth = 2
    /\ Len(plast.before) = Len(steps) + 1

\* C2: at most one step of the pipeline is named "actual_estimator", and if
\* there is one it is the last step.
C2_AtMostOneActualEstimator ==
    /\ Cardinality(NamedActual(steps)) <= 1
    /\ NamedActual(steps) # {} => Last(steps)[1] = ActualEstimator

\* C7: a scope exit (or the free remove operation) on a pipeline whose last
\* step is not named "actual_estimator" leaves the step list as it was, and
\* on one whose last step is named so removes that last step and nothing else.
C7_ExitRemovesOnlyActualEstimator ==
    (plast.op \in {"exit", "remove"} /\ plast.error = "none") =>
        IF Last(plast.before)[1] = ActualEstimator
        THEN steps = Front(plast.before)
        ELSE steps = plast.before

\* a scope is left while the last step is not the estimator step
C7_Witness ==
    /\ plast.op = "exit"
    /\ plast.error = "none"
    /\ Last(plast.before)[1] # ActualEstimator
    /\ steps = plast.before

(***************************************************************************)
(* Claims about the metric evaluation.                                     *)
(***************************************************************************)
Enabled(row) == row.fn # NoFunction

TierA(row) == Invoke(row.fn, row.target, TRUE)

TierB(row) == Invoke(row.fn, row.target, FALSE)

AlwaysRaises(row) == Enabled(row) /\ TierA(row).raised /\ TierB(row).raised

InCalls(c) == \E k \in 1..Len(mcalls) : mcalls[k] = c

\* C3: calculate_metrics never raises because of a scoring function.  For
\* each enabled row the weighted call is made first, the unweighted call is
\* made only if the weighted one raised, and the score 0 is used only if both
\* raised; the score is that of the first tier that did not raise; every row
\* is gone through whatever happened in the rows before; and a catalog of one
\* metric that always raises gives {display name: 0}.
C3_ScoringFailuresAreIsolated ==
    /\ mstate # "raised"
    /\ mstate = "returned" => mrow = Len(metrics)
    /\ \A i \in 1..mrow :
          LET row == metrics[i] IN
          /\ InCalls(<<i, TRUE>>) <=> Enabled(row)
          /\ InCalls(<<i, FALSE>>) <=> (Enabled(row) /\ TierA(row).raised)
          /\ (mstate = "loop" /\ Enabled(row)) =>
                score_dict[i] =
                    <<row.name,
                      IF ~TierA(row).raised THEN TierA(row).value
                      ELSE IF ~TierB(row).raised THEN TierB(row).value
                      ELSE 0>>
    /\ (mstate = "returned" /\ Len(metrics) = 1 /\ AlwaysRaises(metrics[1])) =>
          score_dict = << <<metrics[1].name, 0>> >>

\* a metric that always raises is followed by one scored without weights
C3_Witness ==
    /\ mstate = "returned"
    /\ Len(metrics) = 2
    /\ AlwaysRaises(metrics[1])
    /\ Enabled(metrics[2]) /\ TierA(metrics[2]).raised /\ ~TierB(metrics[2]).raised
    /\ metrics[1].name # metrics[2].name
    /\ score_dict = << <<metrics[1].name, 0>>, <<metrics[2].name, TierB(metrics[2]).value>> >>

UniqueNames ==
    \A i, j \in 1..Len(metrics) : metrics[i].name = metrics[j].name => i = j

EnabledRows == SelectSeq(metrics, Enabled)

\* C4: for a catalog with unique display names the mapping returned by
\* calculate_metrics has one entry per enabled row, keyed by the row's display
\* name, in the order of the catalog; a disabled row has no entry; and every
\* entry's value is a number.
C4_OneEntryPerEnabledRow ==
    (mstate = "returned" /\ UniqueNames) =>
        /\ Len(score_dict) = Len(EnabledRows)
        /\ \A j \in 1..Len(score_dict) :
              /\ score_dict[j][1] = EnabledRows[j].name
              /\ score_dict[j][2] \in 0..4

\* a disabled row among enabled ones is left out of the mapping
C4_Witness ==
    /\ mstate = "returned"
    /\ UniqueNames
    /\ Len(metrics) = 2
    /\ ~Enabled(metrics[1])
    /\ Enabled(metrics[2])
    /\ Len(score_dict) = 1
    /\ score_dict[1][1] = metrics[2].name

(***************************************************************************)
(* Claims about the normalisation of custom transformers.                  *)
(***************************************************************************)
\* the validation rule, item by item
ValidItem(x) ==
    IF IsInstance(x, "tuple")
    THEN /\ Len(x[2]) = 2
         /\ IsInstance(x[2][1], "str")
         /\ x[2][2] \in {Obj("T1"), Obj("T2"), Obj("P")}
    ELSE x \in {Obj("T1"), Obj("T2"), Obj("P")}

\* the name of the bare item at (one-based) place i of a list
NameAtPlace(i) ==
    CASE i = 1 -> "custom_step_0"
      [] i = 2 -> "custom_step_1"
      [] i = 3 -> "custom_step_2"
      [] OTHER -> "custom_step_3"

InputItems ==
    IF IsInstance(transformers, "dict") THEN DictItems(transformers)[2]
    ELSE IF IsInstance(transformers, "list") THEN transformers[2]
    ELSE <<transformers>>

\* C5: normalize_custom_transformers gives an ordered list of (name,
\* transformer) pairs, one per input item and in the order of the input: the
\* (key, value) pairs of a mapping; in a list an item in pair form as it is and
\* a bare item at position i as ("custom_step_<i>", item); a single bare
\* transformer t as [("custom_step", t)].
C5_NormalizedPairsInOrder ==
    nresult # Pending =>
        /\ (\A i \in 1..Len(InputItems) : ValidItem(InputItems[i])) => ~IsRaise(nresult)
        /\ ~IsRaise(nresult) =>
              /\ IsInstance(nresult, "list")
              /\ Len(nresult[2]) = Len(InputItems)
              /\ \A i \in 1..Len(InputItems) :
                    LET x == InputItems[i] IN
                    nresult[2][i] =
                        IF IsInstance(x, "tuple") THEN x
                        ELSE IF IsInstance(transformers, "list")
                        THEN Tuple(<<Str(NameAtPlace(i)), x>>)
                        ELSE Tuple(<<Str("custom_step"), x>>)

\* the list [t1, (name2, t2)] has been normalised
C5_Witness ==
    /\ transformers = List(<<Obj("T1"), Tuple(<<Str("B"), Obj("T2")>>)>>)
    /\ nresult = List(<<Tuple(<<Str("custom_step_0"), Obj("T1")>>),
                        Tuple(<<Str("B"), Obj("T2")>>)>>)

\* C6: a single input that is a full pipeline is flattened: the call gives
\* the pipeline's own step list, and does not nest the pipeline as one step.
C6_PipelineInputIsFlattened ==
    (transformers = Obj("P") /\ nresult # Pending) => nresult = PipelineSteps

(***************************************************************************)
(* Claims about the selection of the splitter.                             *)
(***************************************************************************)
\* C8: get_cv_splitter goes by the first rule that matches: a falsy fold
\* gives the default splitter; a fold that is a splitter is given back; an
\* integer fold gives a new splitter of that many folds with the seed and the
\* shuffle flag, KFold for "kfold" and StratifiedKFold for "stratifiedkfold",
\* and a ValueError for any other strategy; any other fold gives a TypeError.
C8_FirstMatchingRule ==
    cvresult # Pending =>
        LET fold == cvargs.fold IN
        /\ Falsy(fold) => cvresult = cvargs.default
        /\ (~Falsy(fold) /\ fold[1] = "cv") => cvresult = fold
        /\ (~Falsy(fold) /\ fold[1] = "int") =>
              /\ cvargs.int_default = "kfold" =>
                    cvresult = <<"KFold", fold[2], cvargs.seed, cvargs.shuffle>>
              /\ cvargs.int_default = "stratifiedkfold" =>
                    cvresult = <<"StratifiedKFold", fold[2], cvargs.seed, cvargs.shuffle>>
              /\ cvargs.int_default \notin {"kfold", "stratifiedkfold"} =>
                    cvresult = RaiseOf("ValueError")
        /\ (~Falsy(fold) /\ fold[1] \notin {"cv", "int"}) =>
              cvresult = RaiseOf("TypeError")

\* an integer fold with an unknown strategy has been refused
C8_Witness ==
    /\ cvargs.fold = <<"int", 3>>
    /\ cvargs.int_default = "bogus"
    /\ cvresult = RaiseOf("ValueError")

(***************************************************************************)
(* Claims about the global configuration.                                  *)
(***************************************************************************)
\* C9: a get, set or load with a variable name that is not in the known set
\* fails, and a failing get, set or load leaves every variable as it was.
C9_UnknownNameIsRaised ==
    [][/\ (clast'.op \in {"get", "set"} /\ clast'.variable \notin Known(globals_d)) =>
              /\ clast'.error # "none"
              /\ globals_d' = globals_d
       /\ (/\ clast'.op = "load"
           /\ file # NoFile
           /\ \E k \in DOMAIN file : k \notin Known(globals_d)) =>
              /\ clast'.error # "none"
              /\ globals_d' = globals_d
       /\ clast'.error # "none" => globals_d' = globals_d]_vars

\* save_config has written the known variables, with their values, and no
\* other variable
SaveWritesKnown ==
    clast.op = "save" =>
        /\ DOMAIN file = Known(globals_d) \cap DOMAIN globals_d
        /\ \A k \in DOMAIN file : file[k] = globals_d[k]

AfterLoadOfSaved == clast.op = "load" /\ clast.error = "none" /\ saved # NoFile

\* C10 as stated: save_config writes exactly the known variables, and after
\* save_config, any calls of set_config and load_config, get_config of every
\* known variable gives the value the variable had at the save.
C10_SaveLoadRestoresAll ==
    /\ SaveWritesKnown
    /\ AfterLoadOfSaved =>
          \A k \in Known(saved) : get_config(k, globals_d) = saved[k]

\* C10 as amended: the same for every known variable but "logger", which
\* after load_config is the logger of get_logger().
C10_SaveLoadRestoresAllButLogger ==
    /\ SaveWritesKnown
    /\ AfterLoadOfSaved =>
          /\ \A k \in Known(saved) \ {"logger"} : get_config(k, globals_d) = saved[k]
          /\ globals_d["logger"] = TheLogger

\* a session saved with changed variables has been loaded back
C10_Witness ==
    /\ AfterLoadOfSaved
    /\ "seed" \in Known(saved)
    /\ saved["seed"] = IntV(1)
    /\ saved["n_jobs_param"] = IntV(0)
    /\ saved["logger"] = IntV(0)
    /\ globals_d["seed"] = IntV(1)
    /\ globals_d["n_jobs_param"] = IntV(0)

=============================================================================
